---- MODULE Spec2Model ----
(***************************************************************************)
(* Model of demo-recordbatch-writer (src/src/main.rs): a run of main()     *)
(* ensures a Delta table exists at TABLE_URI, builds one Arrow RecordBatch *)
(* from five generated WeatherRecords and commits it.                      *)
(*                                                                         *)
(* The location (the _delta_log directory, the transaction log, the data   *)
(* files) is shared by all runs.  The deltalake / arrow calls are modelled *)
(* at their interface, as the operators OpenTable, CreateTable,            *)
(* RecordBatchTryNew, WriterWrite, FlushedFiles and CommitTransaction.     *)
(***************************************************************************)
EXTENDS Integers, Sequences, FiniteSets, TLC

\* ---------------------------------------------------------------- bounds

\* Number of runs of main() against the one location.
NumRuns == 2
\* Largest number of data files the writer may split one batch into.
MaxFiles == 2
\* Longest record sequence handed to convert_to_batch on its own.
MaxLen == 3

Runs == 1..NumRuns

\* ------------------------------------------------------- WeatherRecord

\* impl Default for WeatherRecord: temp, lat, long (f64 literals kept as text)
DefaultTemp == 72
DefaultLat == "39.61940984546992"
DefaultLong == "-119.22916208856955"

\* WeatherRecord::default() at clock reading now (nanoseconds since epoch)
WeatherRecordDefault(now) ==
    [timestamp |-> now, temp |-> DefaultTemp, lat |-> DefaultLat, long |-> DefaultLong]

SchemaField(name, type, nullable) ==
    [name |-> name, type |-> type, nullable |-> nullable, metadata |-> {}]

\* WeatherRecord::schema() with two fields exchanged
WeatherRecordSchemaSwapped ==
    << SchemaField("timestamp", "timestamp", TRUE),
       SchemaField("temp", "integer", TRUE),
       SchemaField("long", "double", TRUE),
       SchemaField("lat", "double", TRUE) >>

\* WeatherRecord::schema()
WeatherRecordSchema ==
    << SchemaField("timestamp", "timestamp", TRUE),
       SchemaField("temp", "integer", TRUE),
       SchemaField("lat", "double", TRUE),
       SchemaField("long", "double", TRUE) >>

\* The inclusive range of `for i in 1..=5`
FetchFirst == 1
FetchLast == 5

\* fetch_readings() with the loop index taken from 0
FetchReadingsFromZero(clock) ==
    [i \in 1..(FetchLast - FetchFirst + 1) |->
        [WeatherRecordDefault(clock[i]) EXCEPT !.temp = @ - (i - 1)]]

\* fetch_readings(): clock[k] is what Utc::now() returns in iteration k
FetchReadings(clock) ==
    [k \in 1..(FetchLast - FetchFirst + 1) |->
        [WeatherRecordDefault(clock[k]) EXCEPT !.temp = @ - (FetchFirst + k - 1)]]

\* DateTime::timestamp_micros(): whole microseconds, rounded towards -infinity
TimestampMicros(nanos) == nanos \div 1000

\* ------------------------------------------------------------ RecordBatch

Column(type, values) == [type |-> type, values |-> values]

NoBatch == [ok |-> FALSE, schema |-> <<>>, columns |-> <<>>, num_rows |-> 0]

\* RecordBatch::try_new(schema, columns): one column per field, every column
\* of the field's type, all columns of one length
RecordBatchTryNew(schema, columns) ==
    IF /\ Len(columns) = Len(schema)
       /\ Len(columns) > 0
       /\ \A i \in 1..Len(columns) :
             /\ columns[i].type = schema[i].type
             /\ Len(columns[i].values) = Len(columns[1].values)
    THEN [ok |-> TRUE, schema |-> schema, columns |-> columns,
          num_rows |-> Len(columns[1].values)]
    ELSE NoBatch

\* The element types of the four arrays convert_to_batch builds, in order
BatchColumnTypes == << "timestamp", "integer", "double", "double" >>

\* The WeatherRecord field each of the four arrays is filled from, in order
BatchColumnFields == << "timestamp", "temp", "lat", "long" >>

\* convert_to_batch with the lat and long buffers filled from the wrong field
ConvertToBatchSwapped(writerSchema, records) ==
    LET n == Len(records)
    IN RecordBatchTryNew(writerSchema,
         << Column("timestamp", [j \in 1..n |-> TimestampMicros(records[j].timestamp)]),
            Column("integer", [j \in 1..n |-> records[j].temp]),
            Column("double", [j \in 1..n |-> records[j].long]),
            Column("double", [j \in 1..n |-> records[j].lat]) >>)

\* convert_to_batch that never fills the long buffer
ConvertToBatchShortColumn(writerSchema, records) ==
    LET n == Len(records)
    IN RecordBatchTryNew(writerSchema,
         << Column("timestamp", [j \in 1..n |-> TimestampMicros(records[j].timestamp)]),
            Column("integer", [j \in 1..n |-> records[j].temp]),
            Column("double", [j \in 1..n |-> records[j].lat]),
            Column("double", <<>>) >>)

\* convert_to_batch that assembles the batch against the program's own schema
\* instead of writer.arrow_schema()
ConvertToBatchOwnSchema(writerSchema, records) ==
    LET n == Len(records)
    IN RecordBatchTryNew(WeatherRecordSchema,
         << Column("timestamp", [j \in 1..n |-> TimestampMicros(records[j].timestamp)]),
            Column("integer", [j \in 1..n |-> records[j].temp]),
            Column("double", [j \in 1..n |-> records[j].lat]),
            Column("double", [j \in 1..n |-> records[j].long]) >>)

\* convert_to_batch(writer, records); ok = FALSE is the panic of .expect()
ConvertToBatch(writerSchema, records) ==
    LET n == Len(records)
        ts == [j \in 1..n |-> TimestampMicros(records[j][BatchColumnFields[1]])]
        temp == [j \in 1..n |-> records[j][BatchColumnFields[2]]]
        lat == [j \in 1..n |-> records[j][BatchColumnFields[3]]]
        long == [j \in 1..n |-> records[j][BatchColumnFields[4]]]
        arrow_array == << Column(BatchColumnTypes[1], ts),
                          Column(BatchColumnTypes[2], temp),
                          Column(BatchColumnTypes[3], lat),
                          Column(BatchColumnTypes[4], long) >>
    IN RecordBatchTryNew(writerSchema, arrow_array)

\* ------------------------------------------------- the table's location

\* A data file: written by run `writer` as its part number `part`
DataFile(w, i) == [writer |-> w, part |-> i]

NoProtocol == [min_reader_version |-> 0, min_writer_version |-> 0]
NoCommitInfo == [operation |-> "", userName |-> ""]

\* The revision a creation transaction records: metadata, protocol, commitInfo
CreateRevision(schema, protocol, commit_info) ==
    [kind |-> "create", schema |-> schema, protocol |-> protocol,
     commitInfo |-> commit_info, adds |-> {}, removes |-> {}]

\* The revision flush_and_commit records: the add actions of the flushed files
AddRevision(files) ==
    [kind |-> "add", schema |-> <<>>, protocol |-> NoProtocol,
     commitInfo |-> NoCommitInfo, adds |-> files, removes |-> {}]

\* A location is initialized when its log starts with a creation record
Initialized(l) == Len(l) > 0 /\ l[1].kind = "create"
TableSchema(l) == l[1].schema
TableProtocol(l) == l[1].protocol
CreationCount(l) == Cardinality({i \in 1..Len(l) : l[i].kind = "create"})
VisibleFiles(l) ==
    UNION {l[i].adds : i \in 1..Len(l)} \ UNION {l[i].removes : i \in 1..Len(l)}

NoTable == [schema |-> <<>>, protocol |-> NoProtocol, version |-> -1]

\* The state a DeltaTable handle holds once loaded from log l
LoadedTable(l) ==
    [schema |-> TableSchema(l), protocol |-> TableProtocol(l), version |-> Len(l) - 1]

\* Path::join(table_path, "_delta_log").is_dir() answering the opposite
IsDeltaLogDirNegated(dir) == ~dir

\* Path::join(table_path, "_delta_log").is_dir()
IsDeltaLogDir(dir) == dir

\* deltalake::open_table: fails where the log holds no table
OpenTable(l) ==
    IF Initialized(l) THEN [ok |-> TRUE, table |-> LoadedTable(l)]
    ELSE [ok |-> FALSE, table |-> NoTable]

\* DeltaTable::create: the one-shot creation transaction, rejected where the
\* log already has a first revision
CreateTable(l, schema, protocol, commit_info) ==
    IF Len(l) = 0
    THEN [ok |-> TRUE, log |-> << CreateRevision(schema, protocol, commit_info) >>]
    ELSE [ok |-> FALSE, log |-> l]

\* The transaction of flush_and_commit: one revision holding every add
CommitTransaction(l, files) == Append(l, AddRevision(files))

\* RecordBatchWriter::write: rejects a batch whose schema is not the writer's
WriterWrite(writerSchema, b) == b.ok /\ b.schema = writerSchema

\* The files the writer flushes for run w: parts 1..n
FlushedFiles(w, n) == {DataFile(w, i) : i \in 1..n}

\* ----------------------------------------------------------------- state

VARIABLES
    deltaLogDir,   \* whether <table_path>/_delta_log is a directory
    log,           \* the table's revisions, oldest first
    storage,       \* the data files written under the location
    pc,            \* pc[r]: where run r of main() is
    err,           \* err[r]: the error that ended run r, "" if none
    table,         \* table[r]: the DeltaTable handle of run r
    batch,         \* batch[r]: the RecordBatch of run r
    buffered,      \* buffered[r]: the batches writer r holds unflushed
    adds,          \* adds[r]: what flush_and_commit returned to run r
    recs,          \* the records handed to convert_to_batch on its own
    ubatch,        \* the batch convert_to_batch made of recs
    upc            \* "idle", "input", "fetched", "converted"

vars == << deltaLogDir, log, storage, pc, err, table, batch, buffered, adds,
           recs, ubatch, upc >>
locationVars == << deltaLogDir, log, storage >>
unitVars == << recs, ubatch, upc >>

\* Tables another program may have left at the location
OtherSchemas ==
    { WeatherRecordSchemaSwapped,
      << SchemaField("timestamp", "timestamp", TRUE),
         SchemaField("temp", "double", TRUE),
         SchemaField("lat", "double", TRUE),
         SchemaField("long", "double", TRUE) >>,
      << SchemaField("timestamp", "timestamp", TRUE),
         SchemaField("temp", "integer", TRUE),
         SchemaField("lat", "double", TRUE) >>,
      << SchemaField("temp", "integer", TRUE),
         SchemaField("timestamp", "timestamp", TRUE),
         SchemaField("lat", "double", TRUE),
         SchemaField("long", "double", TRUE) >> }

WeatherProtocol == [min_reader_version |-> 1, min_writer_version |-> 1]
WeatherCommitInfo == [operation |-> "CREATE TABLE", userName |-> "test user"]

\* The logs a location may hold before the first run: none, or a table
\* created with some schema and possibly one earlier revision of data
InitialLogs ==
    { <<>> } \cup
    { << CreateRevision(s, p, WeatherCommitInfo) >> :
        s \in {WeatherRecordSchema} \cup OtherSchemas,
        p \in {WeatherProtocol, [min_reader_version |-> 1, min_writer_version |-> 2]} } \cup
    { << CreateRevision(s, WeatherProtocol, WeatherCommitInfo),
         AddRevision({DataFile(0, 1)}) >> :
        s \in {WeatherRecordSchema} \cup OtherSchemas }

InitRuns ==
    /\ pc = [r \in Runs |-> "start"]
    /\ err = [r \in Runs |-> ""]
    /\ table = [r \in Runs |-> NoTable]
    /\ batch = [r \in Runs |-> NoBatch]
    /\ buffered = [r \in Runs |-> <<>>]
    /\ adds = [r \in Runs |-> 0]

Init ==
    /\ log \in InitialLogs
    /\ deltaLogDir \in (IF Len(log) > 0 THEN {TRUE} ELSE BOOLEAN)
    /\ storage = VisibleFiles(log)
    /\ InitRuns
    /\ recs = <<>>
    /\ ubatch = NoBatch
    /\ upc = "idle"

\* ----------------------------------------------------------- main()

\* What Utc::now() may return over the five iterations of fetch_readings:
\* nanoseconds since the epoch, never going back, on either side of a
\* microsecond boundary
Clock == {1999, 2000}
ClockReadings ==
    { c \in [1..(FetchLast - FetchFirst + 1) -> Clock] :
        \A i \in 1..(FetchLast - FetchFirst) : c[i] <= c[i + 1] }

\* An Err returned by `?`, or the panic of unwrap()/expect(): the run ends
\* with the error and its table handle, batch and writer are dropped
Fail(r, e) ==
    /\ pc' = [pc EXCEPT ![r] = "failed"]
    /\ err' = [err EXCEPT ![r] = e]
    /\ table' = [table EXCEPT ![r] = NoTable]
    /\ batch' = [batch EXCEPT ![r] = NoBatch]
    /\ buffered' = [buffered EXCEPT ![r] = <<>>]

\* let table_uri = std::env::var("TABLE_URI")?;
ReadTableUri(r) ==
    /\ pc[r] = "start"
    /\ \E present \in BOOLEAN :
          IF present
          THEN /\ pc' = [pc EXCEPT ![r] = "probe"]
               /\ UNCHANGED << err, table, batch, buffered >>
          ELSE Fail(r, "TABLE_URI")
    /\ UNCHANGED << locationVars, adds, unitVars >>

\* match Path::join(table_path, "_delta_log").is_dir() { true => .. false => .. }
Probe(r) ==
    /\ pc[r] = "probe"
    /\ pc' = [pc EXCEPT ![r] = IF IsDeltaLogDir(deltaLogDir) THEN "open" ELSE "create"]
    /\ UNCHANGED << locationVars, err, table, batch, buffered, adds, unitVars >>

\* true => deltalake::open_table(table_path).await?
OpenExistingTable(r) ==
    /\ pc[r] = "open"
    /\ \E io \in BOOLEAN :
          LET res == OpenTable(log)
          IN IF res.ok /\ ~io
             THEN /\ table' = [table EXCEPT ![r] = res.table]
                  /\ pc' = [pc EXCEPT ![r] = "opened"]
                  /\ UNCHANGED << err, batch, buffered >>
             ELSE Fail(r, "open_table")
    /\ UNCHANGED << locationVars, adds, unitVars >>

\* create_initialized_table opening the table where its creation is rejected
CreateInitializedTableOrOpen(r) ==
    /\ pc[r] = "create"
    /\ \E io \in BOOLEAN :
          LET res == CreateTable(log, WeatherRecordSchema, WeatherProtocol,
                                 WeatherCommitInfo)
          IN IF res.ok /\ ~io
             THEN /\ log' = res.log
                  /\ deltaLogDir' = TRUE
                  /\ table' = [table EXCEPT ![r] = LoadedTable(res.log)]
                  /\ pc' = [pc EXCEPT ![r] = "created"]
                  /\ UNCHANGED << err, batch, buffered >>
             ELSE IF OpenTable(log).ok /\ ~io
             THEN /\ table' = [table EXCEPT ![r] = OpenTable(log).table]
                  /\ pc' = [pc EXCEPT ![r] = "opened"]
                  /\ UNCHANGED << log, deltaLogDir, err, batch, buffered >>
             ELSE /\ Fail(r, "create: io")
                  /\ UNCHANGED << log, deltaLogDir >>
    /\ UNCHANGED << storage, adds, unitVars >>

\* create_initialized_table dropping the result of table.create(..) unchecked
CreateInitializedTableIgnoringError(r) ==
    /\ pc[r] = "create"
    /\ \E io \in BOOLEAN :
          LET res == CreateTable(log, WeatherRecordSchema, WeatherProtocol,
                                 WeatherCommitInfo)
          IN IF res.ok /\ ~io
             THEN /\ log' = res.log
                  /\ deltaLogDir' = TRUE
                  /\ table' = [table EXCEPT ![r] = LoadedTable(res.log)]
             ELSE UNCHANGED << log, deltaLogDir, table >>
    /\ pc' = [pc EXCEPT ![r] = "created"]
    /\ UNCHANGED << storage, err, batch, buffered, adds, unitVars >>

\* false => create_initialized_table(&table_path).await
\* (.unwrap() on the creation transaction: a rejected or failed one panics)
CreateInitializedTable(r) ==
    /\ pc[r] = "create"
    /\ \E io \in BOOLEAN :
          LET table_schema == WeatherRecordSchema
              commit_info == WeatherCommitInfo
              protocol == WeatherProtocol
              res == CreateTable(log, table_schema, protocol, commit_info)
          IN IF ~res.ok
             THEN /\ Fail(r, "create: rejected")
                  /\ UNCHANGED << log, deltaLogDir >>
             ELSE IF io
             THEN /\ Fail(r, "create: io")
                  /\ UNCHANGED << log, deltaLogDir >>
             ELSE /\ log' = res.log
                  /\ deltaLogDir' = TRUE
                  /\ table' = [table EXCEPT ![r] = LoadedTable(res.log)]
                  /\ pc' = [pc EXCEPT ![r] = "created"]
                  /\ UNCHANGED << err, batch, buffered >>
    /\ UNCHANGED << storage, adds, unitVars >>

\* RecordBatchWriter::for_table(&table); fetch_readings(); convert_to_batch(..)
BuildBatch(r) ==
    /\ pc[r] \in {"opened", "created"}
    /\ \E clock \in ClockReadings :
          LET writerSchema == table[r].schema
              records == FetchReadings(clock)
              b == ConvertToBatch(writerSchema, records)
          IN IF b.ok
             THEN /\ batch' = [batch EXCEPT ![r] = b]
                  /\ pc' = [pc EXCEPT ![r] = "built"]
                  /\ UNCHANGED << err, table, buffered >>
             ELSE Fail(r, "RecordBatch")
    /\ UNCHANGED << locationVars, adds, unitVars >>

\* writer.write(batch).await?  (the batch moves into the writer)
Write(r) ==
    /\ pc[r] = "built"
    /\ \E io \in BOOLEAN :
          IF WriterWrite(table[r].schema, batch[r]) /\ ~io
          THEN /\ buffered' = [buffered EXCEPT ![r] = Append(@, batch[r])]
               /\ batch' = [batch EXCEPT ![r] = NoBatch]
               /\ pc' = [pc EXCEPT ![r] = "staged"]
               /\ UNCHANGED << err, table >>
          ELSE Fail(r, "write")
    /\ UNCHANGED << locationVars, adds, unitVars >>

\* writer.flush() in place of flush_and_commit: files written, nothing committed
FlushOnly(r) ==
    /\ pc[r] = "staged"
    /\ \E n \in 1..MaxFiles :
          /\ storage' = storage \cup FlushedFiles(r, n)
          /\ adds' = [adds EXCEPT ![r] = n]
    /\ buffered' = [buffered EXCEPT ![r] = <<>>]
    /\ pc' = [pc EXCEPT ![r] = "committed"]
    /\ UNCHANGED << deltaLogDir, log, err, table, batch, unitVars >>

\* flush_and_commit that, when the commit is rejected, goes back to build a
\* fresh batch and tries again
FlushAndCommitRetrying(r) ==
    /\ pc[r] = "staged"
    /\ \E n \in 1..MaxFiles :
          \/ /\ storage' = storage \cup FlushedFiles(r, n)
             /\ log' = CommitTransaction(log, FlushedFiles(r, n))
             /\ adds' = [adds EXCEPT ![r] = n]
             /\ table' = [table EXCEPT ![r].version = Len(log)]
             /\ buffered' = [buffered EXCEPT ![r] = <<>>]
             /\ pc' = [pc EXCEPT ![r] = "committed"]
             /\ err' = err
          \/ /\ storage' = storage \cup FlushedFiles(r, n)
             /\ buffered' = [buffered EXCEPT ![r] = <<>>]
             /\ pc' = [pc EXCEPT ![r] = "opened"]
             /\ UNCHANGED << log, adds, table, err >>
    /\ UNCHANGED << deltaLogDir, batch, unitVars >>

\* writer.flush_and_commit(&mut table).await.expect("Failed to flush write")
FlushAndCommit(r) ==
    /\ pc[r] = "staged"
    /\ \E n \in 1..MaxFiles :
          \* the flush fails after k of the n files were written
          \/ /\ \E k \in 0..(n - 1) : storage' = storage \cup FlushedFiles(r, k)
             /\ Fail(r, "flush_and_commit")
             /\ UNCHANGED << log, adds >>
          \* every file is written and the revision is accepted
          \/ /\ storage' = storage \cup FlushedFiles(r, n)
             /\ log' = CommitTransaction(log, FlushedFiles(r, n))
             /\ adds' = [adds EXCEPT ![r] = n]
             /\ table' = [table EXCEPT ![r].version = Len(log)]
             /\ buffered' = [buffered EXCEPT ![r] = <<>>]
             /\ pc' = [pc EXCEPT ![r] = "committed"]
             /\ UNCHANGED << err, batch >>
          \* every file is written and the revision is rejected
          \/ /\ storage' = storage \cup FlushedFiles(r, n)
             /\ Fail(r, "flush_and_commit")
             /\ UNCHANGED << log, adds >>
    /\ UNCHANGED << deltaLogDir, unitVars >>

Next ==
    \E r \in Runs :
        \/ ReadTableUri(r)
        \/ Probe(r)
        \/ OpenExistingTable(r)
        \/ CreateInitializedTable(r)
        \/ BuildBatch(r)
        \/ Write(r)
        \/ FlushAndCommit(r)

Spec == Init /\ [][Next]_vars

\* ------------------------------- fetch_readings and convert_to_batch alone

\* The records convert_to_batch is tried on: timestamps in nanoseconds before
\* the epoch, inside a microsecond and on a microsecond boundary
UnitRecords ==
    [timestamp : {-1, 999, 1000, 2500}, temp : {71, -5},
     lat : {DefaultLat, "0.0"}, long : {DefaultLong}]

InitUnit ==
    /\ log = <<>>
    /\ deltaLogDir = FALSE
    /\ storage = {}
    /\ InitRuns
    /\ recs = <<>>
    /\ ubatch = NoBatch
    /\ upc = "input"

\* One more record for the caller's Vec<WeatherRecord>
UnitPush(rec) ==
    /\ upc = "input"
    /\ Len(recs) < MaxLen
    /\ recs' = Append(recs, rec)
    /\ UNCHANGED << locationVars, pc, err, table, batch, buffered, adds, ubatch, upc >>

\* let records = fetch_readings();
UnitFetch ==
    /\ upc = "input"
    /\ recs = <<>>
    /\ \E clock \in ClockReadings : recs' = FetchReadings(clock)
    /\ upc' = "fetched"
    /\ UNCHANGED << locationVars, pc, err, table, batch, buffered, adds, ubatch >>

\* let batch = convert_to_batch(&writer, &records); for a writer of the
\* table main() creates
UnitConvert ==
    /\ upc \in {"input", "fetched"}
    /\ ubatch' = ConvertToBatch(WeatherRecordSchema, recs)
    /\ upc' = "converted"
    /\ UNCHANGED << locationVars, pc, err, table, batch, buffered, adds, recs >>

NextUnit ==
    \/ \E rec \in UnitRecords : UnitPush(rec)
    \/ UnitFetch
    \/ UnitConvert

SpecUnit == InitUnit /\ [][NextUnit]_vars

\* ================================================================ claims

\* The schema the spec fixes, written out field by field
FixedNames == << "timestamp", "temp", "lat", "long" >>
FixedTypes == << "timestamp", "integer", "double", "double" >>
IsFixedSchema(s) ==
    /\ Len(s) = 4
    /\ [i \in 1..Len(s) |-> s[i].name] = FixedNames
    /\ [i \in 1..Len(s) |-> s[i].type] = FixedTypes
    /\ \A i \in 1..Len(s) : s[i].nullable = TRUE

\* The files of run r among a set of files
FilesOf(r, files) == {f \in files : f.writer = r}

\* C1: at a location that is already initialized (creation record and
\* _delta_log directory present), every step of every run leaves it
\* initialized with the same schema, the same protocol and exactly one
\* creation revision; a run that probes it takes the open arm, and opening
\* writes nothing.
C1_BootstrapIdempotent ==
    [][ (Initialized(log) /\ deltaLogDir) =>
          /\ Initialized(log') /\ deltaLogDir'
          /\ TableSchema(log') = TableSchema(log)
          /\ TableProtocol(log') = TableProtocol(log)
          /\ CreationCount(log) = 1 /\ CreationCount(log') = 1
          /\ \A r \in Runs :
                /\ (pc[r] = "probe" /\ pc'[r] # "probe") => pc'[r] = "open"
                /\ (pc[r] = "open" /\ pc'[r] # "open") =>
                      /\ log' = log /\ storage' = storage
                      /\ pc'[r] = "opened" => table'[r] = LoadedTable(log)
      ]_vars

\* C1 witness: every run has opened the one table, none created it
C1_Witness ==
    /\ CreationCount(log) = 1
    /\ \A r \in Runs : pc[r] = "opened"

\* C2 as stated: whenever the open-or-create step has returned a table, by
\* either arm, the location is initialized and the registered schema is the
\* fixed 4-field schema.
C2_AlwaysFixedSchema ==
    \A r \in Runs :
        pc[r] \in {"opened", "created"} =>
            /\ Initialized(log)
            /\ IsFixedSchema(TableSchema(log))
            /\ IsFixedSchema(table[r].schema)

\* C2 amended: whenever the open-or-create step has returned a table the
\* location is initialized and the handle holds its registered schema; by the
\* create arm that schema is the fixed 4-field schema, by the open arm it is
\* whatever schema the existing table registered.
C2_EnsuredTable ==
    \A r \in Runs :
        /\ pc[r] \in {"opened", "created"} =>
              /\ Initialized(log)
              /\ table[r].schema = TableSchema(log)
        /\ pc[r] = "created" => IsFixedSchema(TableSchema(log))

\* C2 witness: a run has opened a table whose schema is not the fixed one
C2_Witness ==
    \E r \in Runs :
        /\ pc[r] = "opened"
        /\ ~IsFixedSchema(table[r].schema)
        /\ table[r].schema = TableSchema(log)

\* C3: a step that ends flush_and_commit either commits (the log grows by
\* exactly one revision, whose additions are all the files this run flushed
\* in the step, as many as the returned count, with nothing removed) or fails
\* (the log is what it was); and in no state is only a part of a run's
\* flushed files visible.
C3_AtomicCommit ==
    [][ /\ \A r \in Runs :
              (pc[r] = "staged" /\ pc'[r] # "staged") =>
                 \/ /\ pc'[r] = "committed"
                    /\ Len(log') = Len(log) + 1
                    /\ SubSeq(log', 1, Len(log)) = log
                    /\ log'[Len(log')].kind = "add"
                    /\ log'[Len(log')].removes = {}
                    /\ log'[Len(log')].adds = FilesOf(r, storage')
                    /\ Cardinality(log'[Len(log')].adds) = adds'[r]
                    /\ adds'[r] > 0
                 \/ /\ pc'[r] = "failed"
                    /\ log' = log
        /\ \A r \in Runs :
              /\ pc[r] = "committed" => pc'[r] = "committed"
              /\ LET mine == FilesOf(r, storage')
                 IN \/ mine \cap VisibleFiles(log') = {}
                    \/ mine \subseteq VisibleFiles(log')
        /\ VisibleFiles(log') \subseteq storage'
      ]_vars

\* C3 witness: one run committed two files, another failed in
\* flush_and_commit after writing a file that no revision shows
C3_Witness ==
    \E r, q \in Runs :
        /\ pc[r] = "committed" /\ adds[r] = 2
        /\ FilesOf(r, storage) \subseteq VisibleFiles(log)
        /\ pc[q] = "failed" /\ err[q] = "flush_and_commit"
        /\ FilesOf(q, storage) # {}
        /\ FilesOf(q, VisibleFiles(log)) = {}

\* The batch's column types against a schema, position by position
TypesDisagree(s) ==
    \/ Len(s) # Len(BatchColumnTypes)
    \/ \E i \in 1..Len(s) : s[i].type # BatchColumnTypes[i]

\* The batch's column order against a schema: the record field a column is
\* filled from is not the schema's field of that position
OrderDisagrees(s) ==
    \/ Len(s) # Len(BatchColumnFields)
    \/ \E i \in 1..Len(s) : s[i].name # BatchColumnFields[i]

\* C4 as stated: a run bound to a table whose schema disagrees with the
\* batch's column types or order never gets past batch construction.
C4_AnyDisagreementFails ==
    \A r \in Runs :
        (table[r] # NoTable
           /\ (TypesDisagree(table[r].schema) \/ OrderDisagrees(table[r].schema))) =>
            pc[r] \in {"opened", "created"}

\* C4 amended: a run bound to a table whose schema disagrees with the batch's
\* column types, position by position or in number, leaves that stage only by
\* failing at batch construction, with the log, the data files and the
\* writer's buffer untouched; it is never found built, staged or committed,
\* and a failed run stays failed.
C4_TypeMismatchBeforeCommit ==
    [][ \A r \in Runs :
          /\ (table[r] # NoTable /\ TypesDisagree(table[r].schema)) =>
                /\ pc[r] \in {"opened", "created"}
                /\ buffered[r] = <<>> /\ adds[r] = 0
                /\ pc'[r] # pc[r] =>
                      /\ pc'[r] = "failed" /\ err'[r] = "RecordBatch"
                      /\ log' = log /\ storage' = storage
                      /\ buffered'[r] = <<>> /\ adds'[r] = 0
          /\ (table'[r] # NoTable /\ TypesDisagree(table'[r].schema)) =>
                pc'[r] \in {"opened", "created"}
          /\ pc[r] = "failed" => (pc'[r] = "failed" /\ err'[r] = err[r])
      ]_vars

\* C4 witness: a run failed at batch construction against a table whose
\* schema disagrees with the batch's column types
C4_Witness ==
    \E r \in Runs :
        /\ pc[r] = "failed" /\ err[r] = "RecordBatch"
        /\ Initialized(log) /\ TypesDisagree(TableSchema(log))
        /\ \A f \in storage : f.writer \notin Runs

\* C5: reading column i, row j of the batch made of K records gives field i
\* of record j, the timestamp as whole microseconds since the epoch; rows are
\* not permuted.
C5_RoundTrip ==
    upc = "converted" =>
        /\ ubatch.ok
        /\ \A j \in 1..Len(recs) :
              /\ ubatch.columns[1].values[j] * 1000 <= recs[j].timestamp
              /\ recs[j].timestamp < (ubatch.columns[1].values[j] + 1) * 1000
              /\ ubatch.columns[2].values[j] = recs[j].temp
              /\ ubatch.columns[3].values[j] = recs[j].lat
              /\ ubatch.columns[4].values[j] = recs[j].long

\* C5 witness: a batch of several distinct records, one with a timestamp
\* before the epoch and one inside a microsecond
C5_Witness ==
    /\ upc = "converted"
    /\ Len(recs) = 3
    /\ recs[1].timestamp = -1 /\ recs[2].timestamp = 2500
    /\ recs[1].lat # recs[3].lat
    /\ ubatch.columns[1].values[1] = -1 /\ ubatch.columns[1].values[2] = 2

\* C6: converting N records (N = 0 included) against the 4-field schema does
\* not fail and gives N rows in 4 columns, each of length N.
C6_RowAndColumnCount ==
    upc = "converted" =>
        /\ ubatch.ok
        /\ ubatch.num_rows = Len(recs)
        /\ Len(ubatch.columns) = 4
        /\ \A i \in 1..Len(ubatch.columns) :
              Len(ubatch.columns[i].values) = Len(recs)

\* C6 witness: the empty sequence was converted
C6_Witness ==
    upc = "converted" /\ recs = <<>> /\ ubatch.ok /\ ubatch.num_rows = 0

\* C7: fetch_readings yields 5 records; the k-th has temp 72 - k, that is
\* 71, 70, 69, 68, 67 in order, and the default lat and long.
C7_FetchReadings ==
    upc = "fetched" =>
        /\ Len(recs) = 5
        /\ [k \in 1..Len(recs) |-> recs[k].temp] = << 71, 70, 69, 68, 67 >>
        /\ \A k \in 1..Len(recs) :
              /\ recs[k].temp = 72 - k
              /\ recs[k].lat = "39.61940984546992"
              /\ recs[k].long = "-119.22916208856955"

\* C7 witness: readings were fetched while the clock moved on
C7_Witness ==
    upc = "fetched" /\ recs[1].timestamp < recs[5].timestamp

\* C8: WeatherRecord::schema() has the 4 fields timestamp, temp, lat, long of
\* types timestamp, integer, double, double, all nullable, and a table a run
\* has just created registers exactly that schema.
C8_Schema ==
    /\ IsFixedSchema(WeatherRecordSchema)
    /\ \A r \in Runs :
          pc[r] = "created" =>
              /\ log[1].kind = "create"
              /\ log[1].schema = WeatherRecordSchema
              /\ IsFixedSchema(log[1].schema)

\* C8 witness: a run has just created the table
C8_Witness ==
    \E r \in Runs : pc[r] = "created" /\ Len(log) = 1

\* The order of the stages of one run
StageEdges ==
    { << "start", "probe" >>, << "probe", "open" >>, << "probe", "create" >>,
      << "open", "opened" >>, << "create", "created" >>,
      << "opened", "built" >>, << "created", "built" >>,
      << "built", "staged" >>, << "staged", "committed" >> } \cup
    { << st, "failed" >> :
        st \in {"start", "open", "create", "opened", "created", "built", "staged"} }

\* C9: every step is one run moving one stage forward along the fixed order,
\* or failing; a failure records an error and nothing follows it; the other
\* runs do not move; the writer never holds more than the one batch.
C9_SingleShotOrdered ==
    [][ \E r \in Runs :
          /\ << pc[r], pc'[r] >> \in StageEdges
          /\ (pc'[r] = "failed") <=> (err'[r] # "")
          /\ \A q \in Runs \ {r} :
                /\ pc'[q] = pc[q] /\ err'[q] = err[q] /\ table'[q] = table[q]
                /\ batch'[q] = batch[q] /\ buffered'[q] = buffered[q]
                /\ adds'[q] = adds[q]
          /\ Len(buffered'[r]) <= 1
          /\ (log' # log) => pc'[r] \in {"created", "committed"}
      ]_vars

\* C9 witness: one run went through every stage, another ended at the commit
C9_Witness ==
    \E r, q \in Runs :
        /\ pc[r] = "committed"
        /\ pc[q] = "failed" /\ err[q] = "flush_and_commit"

\* C10: the log never holds more than one creation record; an initialized
\* location stays initialized; a run leaves the create arm either having
\* recorded the first revision of an empty log or failed, with the log and
\* the data files untouched; a failed run stays failed and shows no file.
C10_CreatedOnce ==
    /\ CreationCount(log) <= 1
    /\ [][ /\ CreationCount(log') <= 1
           /\ Initialized(log) => Initialized(log')
           /\ \A r \in Runs :
                 /\ (pc[r] = "create" /\ pc'[r] # "create") =>
                       \/ /\ Len(log) = 0
                          /\ pc'[r] = "created"
                          /\ Len(log') = 1 /\ Initialized(log')
                       \/ /\ pc'[r] = "failed"
                          /\ log' = log /\ storage' = storage
                 /\ pc[r] = "failed" =>
                       /\ pc'[r] = "failed"
                       /\ FilesOf(r, VisibleFiles(log')) = {}
         ]_vars

\* C10 witness: two runs both reached the create arm; one created the table,
\* the other had its creation rejected
C10_Witness ==
    \E r, q \in Runs :
        /\ pc[r] = "created"
        /\ pc[q] = "failed" /\ err[q] = "create: rejected"

====
